---- MODULE Spec2Model ----
(***************************************************************************)
(* Model of Foam::cellCoBlended, the two-scheme cell-based Courant number  *)
(* blended surface interpolation scheme: its two constructors and its      *)
(* member functions blendingFactor, weights, interpolate, corrected and    *)
(* correction, on a one-dimensional row of cells.                          *)
(***************************************************************************)
EXTENDS Integers, Sequences, FiniteSets, TLC

(***************************************************************************)
(* scalar: exact rational arithmetic, a value is <<numerator, denominator>>*)
(* in lowest terms with a positive denominator.                            *)
(***************************************************************************)
Abs(i) == IF i < 0 THEN -i ELSE i

RECURSIVE Gcd(_, _)
Gcd(a, b) == IF b = 0 THEN a ELSE Gcd(b, a % b)

Norm(n, d) ==
    LET g == Gcd(Abs(n), Abs(d))
        s == IF d < 0 THEN -1 ELSE 1
    IN  <<(s * n) \div g, (s * d) \div g>>

Scalar(i) == <<i, 1>>

Add(x, y) == Norm(x[1] * y[2] + y[1] * x[2], x[2] * y[2])

Sub(x, y) == Norm(x[1] * y[2] - y[1] * x[2], x[2] * y[2])

Mul(x, y) == Norm(x[1] * y[1], x[2] * y[2])

\* x/y, for y # 0
Div(x, y) == Norm(x[1] * y[2], x[2] * y[1])

Less(x, y) == x[1] * y[2] < y[1] * x[2]

LessEq(x, y) == x[1] * y[2] <= y[1] * x[2]

mag(x) == <<Abs(x[1]), x[2]>>

max(x, y) == IF Less(x, y) THEN y ELSE x

min(x, y) == IF Less(y, x) THEN y ELSE x

Zero == Scalar(0)

One == Scalar(1)

Half == <<1, 2>>

(***************************************************************************)
(* The mesh: a row of NCells cells.  Internal faces come first (face i     *)
(* lies between its owner, cell i, and its neighbour, cell i+1), then the  *)
(* two boundary faces at the ends of the row.                              *)
(***************************************************************************)
NCells == 2

Cells == 1..NCells

InternalFaces == 1..(NCells - 1)

BoundaryFaces == {NCells, NCells + 1}

Faces == InternalFaces \cup BoundaryFaces

owner(f) == f

neighbour(f) == f + 1

\* the cell a boundary face belongs to
faceCells(f) == IF f = NCells THEN 1 ELSE NCells

isInternal(f) == f \in InternalFaces

\* the faces bounding a cell
cellFaces(c) ==
    {f \in InternalFaces : owner(f) = c \/ neighbour(f) = c}
        \cup {f \in BoundaryFaces : faceCells(f) = c}

\* the cell volumes of the mesh, fixed when the mesh is built
VARIABLE Vsc

\* a row of cells of widths 1, 2, 1, ..
AlternatingVolumes == [c \in Cells |-> IF c % 2 = 1 THEN 1 ELSE 2]

\* a row of unit cells
UnitVolumes == [c \in Cells |-> 1]

\* mesh.V(): cell volumes
V(c) == Scalar(Vsc[c])

(***************************************************************************)
(* dimensionSet: exponents of mass, length, time, temperature, moles,      *)
(* current and luminous intensity.                                         *)
(***************************************************************************)
dimless == <<0, 0, 0, 0, 0, 0, 0>>

dimVelocity == <<0, 1, -1, 0, 0, 0, 0>>

dimFlux == <<0, 3, -1, 0, 0, 0, 0>>

dimMassFlux == <<1, 0, -1, 0, 0, 0, 0>>

(***************************************************************************)
(* The object registry of the mesh.  Two surfaceScalarFields are           *)
(* registered: "phi", the flux the solver updates, of dimensions phiDims,  *)
(* and "phi0", a fixed volumetric flux.  The volScalarField "rho" is       *)
(* registered when rho is not NoRho.                                       *)
(***************************************************************************)
VARIABLES phiDims, rho, CoScheme, phi, deltaT, scheme, ctor, res

vars == <<Vsc, phiDims, rho, CoScheme, phi, deltaT, scheme, ctor, res>>

PhiVals == {-2, 0, 1}

\* the flux fields the solver produces: no flow, the same flux through
\* every face, or flow through a single face
PhiFields ==
    {[f \in Faces |-> a] : a \in PhiVals}
        \cup {[f \in Faces |-> IF f = g THEN a ELSE 0] : g \in Faces, a \in PhiVals}

DeltaTs == {Half, One}

RhoVals == {2}

NoRho == <<>>

\* the (dimensions of phi, density field) combinations of a case
EnvKinds ==
    {<<dimFlux, NoRho>>, <<dimVelocity, NoRho>>, <<dimMassFlux, NoRho>>}
        \cup {<<dimMassFlux, [c \in Cells |-> r]>> : r \in RhoVals}
        \cup {<<dimFlux, [c \in Cells |-> r]>> : r \in RhoVals}

\* the schemes "interpolate(Co)" may select
CoSchemes == {"linear", "localMax"}

RegisteredFlux == {"phi", "phi0"}

\* mesh.lookupObject<surfaceScalarField>(name), for a registered name
lookupFlux(name) ==
    IF name = "phi"
    THEN [dimensions |-> phiDims, val |-> phi]
    ELSE [dimensions |-> dimFlux, val |-> [f \in Faces |-> 1]]

(***************************************************************************)
(* The parameter stream: a sequence of tokens and a read position.         *)
(***************************************************************************)
Num(x) == [k |-> "num", v |-> x, w |-> ""]

Word(s) == [k |-> "word", v |-> Zero, w |-> s]

NoScheme == [type |-> "none"]

Fail(e, p) == [st |-> e, obj |-> NoScheme, pos |-> p]

\* readScalar(is): the next token, which must be a number
readScalar(is, p) ==
    IF p <= Len(is) /\ is[p].k = "num"
    THEN [st |-> "ok", v |-> is[p].v, pos |-> p + 1]
    ELSE [st |-> "badToken", v |-> Zero, pos |-> p]

\* word(is): the next token, which must be a word
word(is, p) ==
    IF p <= Len(is) /\ is[p].k = "word"
    THEN [st |-> "ok", w |-> is[p].w, pos |-> p + 1]
    ELSE [st |-> "badToken", w |-> "", pos |-> p]

\* the range check with Co1 = 0 rejected, as its message words it
badCoeffsPositive(Co1, Co2) ==
    LessEq(Co1, Zero) \/ LessEq(Co2, Zero) \/ LessEq(Co2, Co1)

\* the Co1/Co2 range check of both constructors
badCoeffs(Co1, Co2) == Less(Co1, Zero) \/ Less(Co2, Zero) \/ LessEq(Co2, Co1)

\* a flux-based sub-scheme (linearUpwind, LUST) from mesh and Istream:
\* the flux name is read and looked up, then the gradient scheme name
fluxSchemeMesh(t, is, p) ==
    LET n == word(is, p) IN
    IF n.st # "ok" THEN Fail(n.st, n.pos)
    ELSE IF n.w \notin RegisteredFlux THEN Fail("lookup", n.pos)
    ELSE LET g == word(is, n.pos) IN
         IF g.st # "ok" THEN Fail(g.st, g.pos)
         ELSE [st |-> "ok",
               obj |-> [type |-> t, faceFlux_ |-> n.w, gradSchemeName_ |-> g.w],
               pos |-> g.pos]

\* a flux-based sub-scheme from mesh, faceFlux and Istream
fluxSchemeMeshFlux(t, faceFlux, is, p) ==
    LET g == word(is, p) IN
    IF g.st # "ok" THEN Fail(g.st, g.pos)
    ELSE [st |-> "ok",
          obj |-> [type |-> t, faceFlux_ |-> faceFlux, gradSchemeName_ |-> g.w],
          pos |-> g.pos]

RECURSIVE NewMesh(_, _), NewMeshFlux(_, _, _)

\* the constructor with both coefficients read before the sub-schemes:
\* Co1, Co2, scheme1, scheme2, flux name
cellCoBlendedMeshCoeffsFirst(is, p) ==
    LET Co1 == readScalar(is, p) IN
    IF Co1.st # "ok" THEN Fail(Co1.st, Co1.pos) ELSE
    LET Co2 == readScalar(is, Co1.pos) IN
    IF Co2.st # "ok" THEN Fail(Co2.st, Co2.pos) ELSE
    LET tScheme1 == NewMesh(is, Co2.pos) IN
    IF tScheme1.st # "ok" THEN Fail(tScheme1.st, tScheme1.pos) ELSE
    LET tScheme2 == NewMesh(is, tScheme1.pos) IN
    IF tScheme2.st # "ok" THEN Fail(tScheme2.st, tScheme2.pos) ELSE
    LET faceFlux == word(is, tScheme2.pos) IN
    IF faceFlux.st # "ok" THEN Fail(faceFlux.st, faceFlux.pos)
    ELSE IF faceFlux.w \notin RegisteredFlux THEN Fail("lookup", faceFlux.pos)
    ELSE IF badCoeffs(Co1.v, Co2.v) THEN Fail("coeffs", faceFlux.pos)
    ELSE [st |-> "ok",
          obj |-> [type |-> "cellCoBlended",
                   Co1_ |-> Co1.v, tScheme1_ |-> tScheme1.obj,
                   Co2_ |-> Co2.v, tScheme2_ |-> tScheme2.obj,
                   faceFlux_ |-> faceFlux.w],
          pos |-> faceFlux.pos]

\* the constructor with the flux name looked at but left in the stream: the
\* caller resumes at the flux name
cellCoBlendedMeshNamePutBack(is, p) ==
    LET Co1 == readScalar(is, p) IN
    IF Co1.st # "ok" THEN Fail(Co1.st, Co1.pos) ELSE
    LET tScheme1 == NewMesh(is, Co1.pos) IN
    IF tScheme1.st # "ok" THEN Fail(tScheme1.st, tScheme1.pos) ELSE
    LET Co2 == readScalar(is, tScheme1.pos) IN
    IF Co2.st # "ok" THEN Fail(Co2.st, Co2.pos) ELSE
    LET tScheme2 == NewMesh(is, Co2.pos) IN
    IF tScheme2.st # "ok" THEN Fail(tScheme2.st, tScheme2.pos) ELSE
    LET faceFlux == word(is, tScheme2.pos) IN
    IF faceFlux.st # "ok" THEN Fail(faceFlux.st, faceFlux.pos)
    ELSE IF faceFlux.w \notin RegisteredFlux THEN Fail("lookup", faceFlux.pos)
    ELSE IF badCoeffs(Co1.v, Co2.v) THEN Fail("coeffs", faceFlux.pos)
    ELSE [st |-> "ok",
          obj |-> [type |-> "cellCoBlended",
                   Co1_ |-> Co1.v, tScheme1_ |-> tScheme1.obj,
                   Co2_ |-> Co2.v, tScheme2_ |-> tScheme2.obj,
                   faceFlux_ |-> faceFlux.w],
          pos |-> tScheme2.pos]

\* the constructor with the range check made as soon as Co2 is read, before
\* scheme2 is resolved and the flux field looked up
cellCoBlendedMeshRangeCheckEarly(is, p) ==
    LET Co1 == readScalar(is, p) IN
    IF Co1.st # "ok" THEN Fail(Co1.st, Co1.pos) ELSE
    LET tScheme1 == NewMesh(is, Co1.pos) IN
    IF tScheme1.st # "ok" THEN Fail(tScheme1.st, tScheme1.pos) ELSE
    LET Co2 == readScalar(is, tScheme1.pos) IN
    IF Co2.st # "ok" THEN Fail(Co2.st, Co2.pos)
    ELSE IF badCoeffs(Co1.v, Co2.v) THEN Fail("coeffs", Co2.pos) ELSE
    LET tScheme2 == NewMesh(is, Co2.pos) IN
    IF tScheme2.st # "ok" THEN Fail(tScheme2.st, tScheme2.pos) ELSE
    LET faceFlux == word(is, tScheme2.pos) IN
    IF faceFlux.st # "ok" THEN Fail(faceFlux.st, faceFlux.pos)
    ELSE IF faceFlux.w \notin RegisteredFlux THEN Fail("lookup", faceFlux.pos)
    ELSE [st |-> "ok",
          obj |-> [type |-> "cellCoBlended",
                   Co1_ |-> Co1.v, tScheme1_ |-> tScheme1.obj,
                   Co2_ |-> Co2.v, tScheme2_ |-> tScheme2.obj,
                   faceFlux_ |-> faceFlux.w],
          pos |-> faceFlux.pos]

\* cellCoBlended(const fvMesh&, Istream&)
cellCoBlendedMesh(is, p) ==
    LET Co1 == readScalar(is, p) IN
    IF Co1.st # "ok" THEN Fail(Co1.st, Co1.pos) ELSE
    LET tScheme1 == NewMesh(is, Co1.pos) IN
    IF tScheme1.st # "ok" THEN Fail(tScheme1.st, tScheme1.pos) ELSE
    LET Co2 == readScalar(is, tScheme1.pos) IN
    IF Co2.st # "ok" THEN Fail(Co2.st, Co2.pos) ELSE
    LET tScheme2 == NewMesh(is, Co2.pos) IN
    IF tScheme2.st # "ok" THEN Fail(tScheme2.st, tScheme2.pos) ELSE
    LET faceFlux == word(is, tScheme2.pos) IN
    IF faceFlux.st # "ok" THEN Fail(faceFlux.st, faceFlux.pos)
    ELSE IF faceFlux.w \notin RegisteredFlux THEN Fail("lookup", faceFlux.pos)
    ELSE IF badCoeffs(Co1.v, Co2.v) THEN Fail("coeffs", faceFlux.pos)
    ELSE [st |-> "ok",
          obj |-> [type |-> "cellCoBlended",
                   Co1_ |-> Co1.v, tScheme1_ |-> tScheme1.obj,
                   Co2_ |-> Co2.v, tScheme2_ |-> tScheme2.obj,
                   faceFlux_ |-> faceFlux.w],
          pos |-> faceFlux.pos]

\* the explicit-flux constructor reading a flux name after scheme2, as the
\* name-lookup constructor does, and binding the scheme to the named field
cellCoBlendedMeshFluxReadingName(faceFlux, is, p) ==
    LET Co1 == readScalar(is, p) IN
    IF Co1.st # "ok" THEN Fail(Co1.st, Co1.pos) ELSE
    LET tScheme1 == NewMeshFlux(faceFlux, is, Co1.pos) IN
    IF tScheme1.st # "ok" THEN Fail(tScheme1.st, tScheme1.pos) ELSE
    LET Co2 == readScalar(is, tScheme1.pos) IN
    IF Co2.st # "ok" THEN Fail(Co2.st, Co2.pos) ELSE
    LET tScheme2 == NewMeshFlux(faceFlux, is, Co2.pos) IN
    IF tScheme2.st # "ok" THEN Fail(tScheme2.st, tScheme2.pos) ELSE
    LET name == word(is, tScheme2.pos) IN
    IF name.st # "ok" THEN Fail(name.st, name.pos)
    ELSE IF name.w \notin RegisteredFlux THEN Fail("lookup", name.pos)
    ELSE IF badCoeffs(Co1.v, Co2.v) THEN Fail("coeffs", name.pos)
    ELSE [st |-> "ok",
          obj |-> [type |-> "cellCoBlended",
                   Co1_ |-> Co1.v, tScheme1_ |-> tScheme1.obj,
                   Co2_ |-> Co2.v, tScheme2_ |-> tScheme2.obj,
                   faceFlux_ |-> name.w],
          pos |-> name.pos]

\* cellCoBlended(const fvMesh&, const surfaceScalarField&, Istream&)
cellCoBlendedMeshFlux(faceFlux, is, p) ==
    LET Co1 == readScalar(is, p) IN
    IF Co1.st # "ok" THEN Fail(Co1.st, Co1.pos) ELSE
    LET tScheme1 == NewMeshFlux(faceFlux, is, Co1.pos) IN
    IF tScheme1.st # "ok" THEN Fail(tScheme1.st, tScheme1.pos) ELSE
    LET Co2 == readScalar(is, tScheme1.pos) IN
    IF Co2.st # "ok" THEN Fail(Co2.st, Co2.pos) ELSE
    LET tScheme2 == NewMeshFlux(faceFlux, is, Co2.pos) IN
    IF tScheme2.st # "ok" THEN Fail(tScheme2.st, tScheme2.pos)
    ELSE IF badCoeffs(Co1.v, Co2.v) THEN Fail("coeffs", tScheme2.pos)
    ELSE [st |-> "ok",
          obj |-> [type |-> "cellCoBlended",
                   Co1_ |-> Co1.v, tScheme1_ |-> tScheme1.obj,
                   Co2_ |-> Co2.v, tScheme2_ |-> tScheme2.obj,
                   faceFlux_ |-> faceFlux],
          pos |-> tScheme2.pos]

\* surfaceInterpolationScheme<Type>::New(mesh, is)
NewMesh(is, p) ==
    IF p > Len(is) THEN Fail("notSpecified", p)
    ELSE LET schemeName == word(is, p) IN
         IF schemeName.st # "ok" THEN Fail(schemeName.st, schemeName.pos)
         ELSE IF schemeName.w = "linear"
              THEN [st |-> "ok", obj |-> [type |-> "linear"], pos |-> schemeName.pos]
         ELSE IF schemeName.w \in {"linearUpwind", "LUST"}
              THEN fluxSchemeMesh(schemeName.w, is, schemeName.pos)
         ELSE IF schemeName.w = "cellCoBlended"
              THEN cellCoBlendedMesh(is, schemeName.pos)
         ELSE Fail("unknownScheme", schemeName.pos)

\* surfaceInterpolationScheme<Type>::New(mesh, faceFlux, is)
NewMeshFlux(faceFlux, is, p) ==
    IF p > Len(is) THEN Fail("notSpecified", p)
    ELSE LET schemeName == word(is, p) IN
         IF schemeName.st # "ok" THEN Fail(schemeName.st, schemeName.pos)
         ELSE IF schemeName.w = "linear"
              THEN [st |-> "ok", obj |-> [type |-> "linear"], pos |-> schemeName.pos]
         ELSE IF schemeName.w \in {"linearUpwind", "LUST"}
              THEN fluxSchemeMeshFlux(schemeName.w, faceFlux, is, schemeName.pos)
         ELSE IF schemeName.w = "cellCoBlended"
              THEN cellCoBlendedMeshFlux(faceFlux, is, schemeName.pos)
         ELSE Fail("unknownScheme", schemeName.pos)

(***************************************************************************)
(* Fields.  A surface field is a function on Faces (internal and boundary  *)
(* faces alike), a volume field has cell values i and boundary values b.   *)
(***************************************************************************)
FMul(a, b) == [f \in Faces |-> Mul(a[f], b[f])]

FAdd(a, b) == [f \in Faces |-> Add(a[f], b[f])]

\* scalar(1) - bf
OneMinus(bf) == [f \in Faces |-> Sub(One, bf[f])]

\* the result of a member function: st is "ok" or the fatal error that ended
\* it, null holds for an empty tmp
Ok(val) == [st |-> "ok", null |-> FALSE, val |-> val]

Null == [st |-> "ok", null |-> TRUE, val |-> <<>>]

Fatal(e) == [st |-> e, null |-> TRUE, val |-> <<>>]

\* the result of correction: for a call that returns, requested holds the
\* sub-schemes (1, 2) whose correction(vf) was called
Corr(r, requested) ==
    [st |-> r.st, null |-> r.null, val |-> r.val, requested |-> requested]

\* the weight of the owner cell under linear interpolation: the cells have
\* unit cross-section, so the centre of a cell is V/2 away from its faces
linearWeight(f) == Div(V(neighbour(f)), Add(V(owner(f)), V(neighbour(f))))

\* fvc::interpolate(vsf) of a scalar volume field with zero-gradient
\* (extrapolated) boundary values, by the scheme named sch
fvcInterpolate(sch, vsf) ==
    [f \in Faces |->
        IF ~isInternal(f) THEN vsf[faceCells(f)]
        ELSE IF sch = "localMax" THEN max(vsf[owner(f)], vsf[neighbour(f)])
        ELSE Add(Mul(linearWeight(f), vsf[owner(f)]),
                 Mul(Sub(One, linearWeight(f)), vsf[neighbour(f)]))]

RECURSIVE SumOver(_, _)
SumOver(S, ssf) ==
    IF S = {} THEN Zero
    ELSE LET f == CHOOSE g \in S : TRUE
         IN  Add(ssf[f], SumOver(S \ {f}, ssf))

\* fvc::surfaceSum(ssf): each internal face adds to its owner and to its
\* neighbour, each boundary face to its cell
surfaceSum(ssf) == [c \in Cells |-> SumOver(cellFaces(c), ssf)]

(***************************************************************************)
(* cellCoBlended::blendingFactor.  The result also records the scratch     *)
(* fields: Uflux, the cell Courant number Co and its face interpolate.     *)
(***************************************************************************)
BfFatal(e) ==
    [st |-> e, null |-> TRUE, val |-> <<>>, Uflux |-> <<>>, Co |-> <<>>, CoFace |-> <<>>]

\* the blending factor without the lower clamp max(.., 0)
faceBlendingFactorNoMax(Cof, Co1, Co2) ==
    Sub(One, min(Div(Sub(Cof, Co1), Sub(Co2, Co1)), One))

\* the blending factor with the ramp scaled by Co2 instead of Co2 - Co1
faceBlendingFactorByCo2(Cof, Co1, Co2) ==
    Sub(One, max(min(Div(Sub(Cof, Co1), Co2), One), Zero))

\* the blending factor without the complement scalar(1) - ..
faceBlendingFactorNoComplement(Cof, Co1, Co2) ==
    max(min(Div(Sub(Cof, Co1), Sub(Co2, Co1)), One), Zero)

\* the blending factor of one face from its interpolated Courant number
faceBlendingFactor(Cof, Co1, Co2) ==
    Sub(One, max(min(Div(Sub(Cof, Co1), Sub(Co2, Co1)), One), Zero))

\* the cell Courant number from the signed flux, mag() left out
cellCoSigned(Uflux) ==
    LET sumPhi == surfaceSum(Uflux)
    IN  [c \in Cells |-> Mul(Div(sumPhi[c], V(c)), Mul(Half, deltaT))]

\* the cell Courant number over the whole time step, the factor 0.5 left out
cellCoFullStep(Uflux) ==
    LET sumPhi == surfaceSum([f \in Faces |-> mag(Uflux[f])])
    IN  [c \in Cells |-> Mul(Div(sumPhi[c], V(c)), deltaT)]

\* the cell Courant number field from the volumetric flux
cellCo(Uflux) ==
    LET sumPhi == surfaceSum([f \in Faces |-> mag(Uflux[f])])
    IN  [c \in Cells |-> Mul(Div(sumPhi[c], V(c)), Mul(Half, deltaT))]

\* the result of blendingFactor from the scratch fields
blendingFactorFrom(s, Uflux, Co, CoFace) ==
    [st |-> "ok", null |-> FALSE,
     val |-> [f \in Faces |-> faceBlendingFactor(CoFace[f], s.Co1_, s.Co2_)],
     Uflux |-> Uflux, Co |-> Co, CoFace |-> CoFace]

blendingFactorOf(s, Uflux, Co) ==
    blendingFactorFrom(s, Uflux, Co, fvcInterpolate(CoScheme, Co))

\* blendingFactor without the check of the flux dimensions: every flux that
\* is not a mass flux is taken as volumetric
blendingFactorNoDimensionCheck(s, vf) ==
    LET faceFlux == lookupFlux(s.faceFlux_) IN
    IF faceFlux.dimensions = dimMassFlux
    THEN IF rho = NoRho THEN BfFatal("lookup")
         ELSE LET rhof == fvcInterpolate("linear", [c \in Cells |-> Scalar(rho[c])])
                  Uflux == [f \in Faces |-> Div(Scalar(faceFlux.val[f]), rhof[f])]
              IN  blendingFactorOf(s, Uflux, cellCo(Uflux))
    ELSE LET Uflux == [f \in Faces |-> Scalar(faceFlux.val[f])]
         IN  blendingFactorOf(s, Uflux, cellCo(Uflux))

\* blendingFactor with the mass flux taken as it is, not divided by the
\* interpolated density
blendingFactorMassAsVolume(s, vf) ==
    LET faceFlux == lookupFlux(s.faceFlux_) IN
    IF faceFlux.dimensions = dimMassFlux
    THEN IF rho = NoRho THEN BfFatal("lookup")
         ELSE LET Uflux == [f \in Faces |-> Scalar(faceFlux.val[f])]
              IN  blendingFactorOf(s, Uflux, cellCo(Uflux))
    ELSE IF faceFlux.dimensions # dimFlux THEN BfFatal("dimensions")
    ELSE LET Uflux == [f \in Faces |-> Scalar(faceFlux.val[f])]
         IN  blendingFactorOf(s, Uflux, cellCo(Uflux))

\* blendingFactor from a copy of the flux field taken when the scheme was
\* constructed (no flow yet), not from the field as it is now
blendingFactorOfCopiedFlux(s, vf) ==
    LET faceFlux == lookupFlux(s.faceFlux_) IN
    IF faceFlux.dimensions = dimMassFlux
    THEN IF rho = NoRho THEN BfFatal("lookup")
         ELSE LET Uflux == [f \in Faces |-> Zero]
              IN  blendingFactorOf(s, Uflux, cellCo(Uflux))
    ELSE IF faceFlux.dimensions # dimFlux THEN BfFatal("dimensions")
    ELSE LET Uflux == [f \in Faces |-> Zero]
         IN  blendingFactorOf(s, Uflux, cellCo(Uflux))

\* blendingFactor with "rho" looked up before the dimensions of the flux are
\* examined
blendingFactorRhoFirst(s, vf) ==
    LET faceFlux == lookupFlux(s.faceFlux_) IN
    IF rho = NoRho THEN BfFatal("lookup")
    ELSE IF faceFlux.dimensions = dimMassFlux
    THEN LET rhof == fvcInterpolate("linear", [c \in Cells |-> Scalar(rho[c])])
             Uflux == [f \in Faces |-> Div(Scalar(faceFlux.val[f]), rhof[f])]
         IN  blendingFactorOf(s, Uflux, cellCo(Uflux))
    ELSE IF faceFlux.dimensions # dimFlux THEN BfFatal("dimensions")
    ELSE LET Uflux == [f \in Faces |-> Scalar(faceFlux.val[f])]
         IN  blendingFactorOf(s, Uflux, cellCo(Uflux))

blendingFactor(s, vf) ==
    LET faceFlux == lookupFlux(s.faceFlux_) IN
    IF faceFlux.dimensions = dimMassFlux
    THEN IF rho = NoRho THEN BfFatal("lookup")
         ELSE LET rhof == fvcInterpolate("linear", [c \in Cells |-> Scalar(rho[c])])
                  Uflux == [f \in Faces |-> Div(Scalar(faceFlux.val[f]), rhof[f])]
              IN  blendingFactorOf(s, Uflux, cellCo(Uflux))
    ELSE IF faceFlux.dimensions # dimFlux THEN BfFatal("dimensions")
    ELSE LET Uflux == [f \in Faces |-> Scalar(faceFlux.val[f])]
         IN  blendingFactorOf(s, Uflux, cellCo(Uflux))

(***************************************************************************)
(* The member functions of a scheme, selected by its run-time type.        *)
(***************************************************************************)
\* subScheme(s, vf): what the member functions of the scheme s return for vf,
\* a record of its weights, interpolate and correction
RECURSIVE subScheme(_, _), schemeCorrected(_)

\* upwind::weights: pos0(faceFlux)
upwindWeights(s) ==
    LET faceFlux == lookupFlux(s.faceFlux_).val
    IN  [f \in Faces |->
            IF ~isInternal(f) \/ faceFlux[f] >= 0 THEN One ELSE Zero]

\* linear::weights
linearWeights == [f \in Faces |-> IF isInternal(f) THEN linearWeight(f) ELSE One]

\* linearUpwind::correction: the upwind cell's value extrapolated to the
\* face with the gradient (vf_N - vf_P)/d, nothing on boundary faces
linearUpwindCorrection(s, vf) ==
    LET faceFlux == lookupFlux(s.faceFlux_).val
    IN  [f \in Faces |->
            IF ~isInternal(f) THEN Zero
            ELSE IF faceFlux[f] >= 0
                 THEN <<vf.i[neighbour(f)] - vf.i[owner(f)], 2>>
                 ELSE <<vf.i[owner(f)] - vf.i[neighbour(f)], 2>>]

\* surfaceInterpolationScheme::interpolate(vf, weights)
interpolateWith(vf, w) ==
    [f \in Faces |->
        IF ~isInternal(f) THEN Scalar(vf.b[f])
        ELSE Add(Mul(w[f], Scalar(vf.i[owner(f)])),
                 Mul(Sub(One, w[f]), Scalar(vf.i[neighbour(f)])))]

\* the blend with scheme2 taken whole: bf*r1 + r2
blendNoComplement(bf, r1, r2) ==
    IF bf.st # "ok" THEN Fatal(bf.st)
    ELSE IF r1.st # "ok" THEN Fatal(r1.st)
    ELSE IF r2.st # "ok" THEN Fatal(r2.st)
    ELSE Ok(FAdd(FMul(bf.val, r1.val), r2.val))

\* bf*r1 + (scalar(1) - bf)*r2 of two sub-scheme results, or the fatal
\* error that ended the evaluation
blend(bf, r1, r2) ==
    IF bf.st # "ok" THEN Fatal(bf.st)
    ELSE IF r1.st # "ok" THEN Fatal(r1.st)
    ELSE IF r2.st # "ok" THEN Fatal(r2.st)
    ELSE Ok(FAdd(FMul(bf.val, r1.val), FMul(OneMinus(bf.val), r2.val)))

\* the blend with the two sub-schemes' roles exchanged
blendSwapped(bf, r1, r2) ==
    IF bf.st # "ok" THEN Fatal(bf.st)
    ELSE IF r1.st # "ok" THEN Fatal(r1.st)
    ELSE IF r2.st # "ok" THEN Fatal(r2.st)
    ELSE Ok(FAdd(FMul(OneMinus(bf.val), r1.val), FMul(bf.val, r2.val)))

\* the blend with bf applied to both sub-schemes
blendSameFactor(bf, r1, r2) ==
    IF bf.st # "ok" THEN Fatal(bf.st)
    ELSE IF r1.st # "ok" THEN Fatal(r1.st)
    ELSE IF r2.st # "ok" THEN Fatal(r2.st)
    ELSE Ok(FAdd(FMul(bf.val, r1.val), FMul(bf.val, r2.val)))

\* factor*r of one sub-scheme result
scaled(factor, r) ==
    IF r.st # "ok" THEN Fatal(r.st) ELSE Ok(FMul(factor, r.val))

\* weights with the two sub-schemes' roles exchanged
weightsSwapped(s, vf) ==
    blendSwapped(blendingFactor(s, vf),
                 subScheme(s.tScheme1_, vf).weights,
                 subScheme(s.tScheme2_, vf).weights)

\* cellCoBlended::weights
weights(s, vf) ==
    blend(blendingFactor(s, vf),
          subScheme(s.tScheme1_, vf).weights,
          subScheme(s.tScheme2_, vf).weights)

\* interpolate with bf applied to both sub-schemes
interpolateSameFactor(s, vf) ==
    blendSameFactor(blendingFactor(s, vf),
                    subScheme(s.tScheme1_, vf).interpolate,
                    subScheme(s.tScheme2_, vf).interpolate)

\* cellCoBlended::interpolate
interpolate(s, vf) ==
    blend(blendingFactor(s, vf),
          subScheme(s.tScheme1_, vf).interpolate,
          subScheme(s.tScheme2_, vf).interpolate)

\* corrected with && for ||
correctedBoth(s) == schemeCorrected(s.tScheme1_) /\ schemeCorrected(s.tScheme2_)

\* cellCoBlended::corrected
corrected(s) == schemeCorrected(s.tScheme1_) \/ schemeCorrected(s.tScheme2_)

\* the branches of correction with a zero field returned where no
\* sub-scheme is corrected
correctionOfZeroField(s, vf, bf) ==
    IF bf.st # "ok" THEN Corr(Fatal(bf.st), {})
    ELSE IF schemeCorrected(s.tScheme1_)
    THEN IF schemeCorrected(s.tScheme2_)
         THEN Corr(blend(bf, subScheme(s.tScheme1_, vf).correction,
                             subScheme(s.tScheme2_, vf).correction), {1, 2})
         ELSE Corr(scaled(bf.val, subScheme(s.tScheme1_, vf).correction), {1})
    ELSE IF schemeCorrected(s.tScheme2_)
    THEN Corr(scaled(OneMinus(bf.val), subScheme(s.tScheme2_, vf).correction), {2})
    ELSE Corr(Ok([f \in Faces |-> Zero]), {})

\* the branches of correction with scheme2's correction scaled by bf where
\* only scheme2 is corrected
correctionOfSecondByBf(s, vf, bf) ==
    IF bf.st # "ok" THEN Corr(Fatal(bf.st), {})
    ELSE IF schemeCorrected(s.tScheme1_)
    THEN IF schemeCorrected(s.tScheme2_)
         THEN Corr(blend(bf, subScheme(s.tScheme1_, vf).correction,
                             subScheme(s.tScheme2_, vf).correction), {1, 2})
         ELSE Corr(scaled(bf.val, subScheme(s.tScheme1_, vf).correction), {1})
    ELSE IF schemeCorrected(s.tScheme2_)
    THEN Corr(scaled(bf.val, subScheme(s.tScheme2_, vf).correction), {2})
    ELSE Corr(Null, {})

\* the branches of correction with the corrected() flags inspected before
\* the blending factor: an absent result where no sub-scheme is corrected,
\* whatever became of blendingFactor
correctionOfFlagsFirst(s, vf, bf) ==
    IF ~schemeCorrected(s.tScheme1_) /\ ~schemeCorrected(s.tScheme2_)
    THEN Corr(Null, {})
    ELSE IF bf.st # "ok" THEN Corr(Fatal(bf.st), {})
    ELSE IF schemeCorrected(s.tScheme1_)
    THEN IF schemeCorrected(s.tScheme2_)
         THEN Corr(blend(bf, subScheme(s.tScheme1_, vf).correction,
                             subScheme(s.tScheme2_, vf).correction), {1, 2})
         ELSE Corr(scaled(bf.val, subScheme(s.tScheme1_, vf).correction), {1})
    ELSE Corr(scaled(OneMinus(bf.val), subScheme(s.tScheme2_, vf).correction), {2})

\* the branches of correction, bf being the blending factor it computed
\* first
correctionOf(s, vf, bf) ==
    IF bf.st # "ok" THEN Corr(Fatal(bf.st), {})
    ELSE IF schemeCorrected(s.tScheme1_)
    THEN IF schemeCorrected(s.tScheme2_)
         THEN Corr(blend(bf, subScheme(s.tScheme1_, vf).correction,
                             subScheme(s.tScheme2_, vf).correction), {1, 2})
         ELSE Corr(scaled(bf.val, subScheme(s.tScheme1_, vf).correction), {1})
    ELSE IF schemeCorrected(s.tScheme2_)
    THEN Corr(scaled(OneMinus(bf.val), subScheme(s.tScheme2_, vf).correction), {2})
    ELSE Corr(Null, {})

\* cellCoBlended::correction
correction(s, vf) == correctionOf(s, vf, blendingFactor(s, vf))

schemeCorrected(s) ==
    IF s.type = "cellCoBlended" THEN corrected(s)
    ELSE s.type \in {"linearUpwind", "LUST"}

\* the weights of a scheme that is not blended
leafWeights(s) ==
    IF s.type = "linear" THEN linearWeights
    ELSE IF s.type = "linearUpwind" THEN upwindWeights(s)
    ELSE [f \in Faces |->
            Add(Mul(<<3, 4>>, linearWeights[f]), Mul(<<1, 4>>, upwindWeights(s)[f]))]

\* the correction of a scheme that is not blended
leafCorrection(s, vf) ==
    IF s.type = "linearUpwind" THEN Ok(linearUpwindCorrection(s, vf))
    ELSE IF s.type = "LUST"
    THEN Ok([f \in Faces |-> Mul(<<1, 4>>, linearUpwindCorrection(s, vf)[f])])
    ELSE Null

\* surfaceInterpolationScheme::interpolate(vf) of a scheme that is not
\* blended: interpolate(vf, weights(vf)), plus correction(vf) if corrected
leafInterpolate(s, vf) ==
    IF schemeCorrected(s)
    THEN FAdd(interpolateWith(vf, leafWeights(s)), leafCorrection(s, vf).val)
    ELSE interpolateWith(vf, leafWeights(s))

subScheme(s, vf) ==
    IF s.type = "cellCoBlended"
    THEN [weights |-> weights(s, vf),
          interpolate |-> interpolate(s, vf),
          correction |-> correction(s, vf)]
    ELSE [weights |-> Ok(leafWeights(s)),
          interpolate |-> Ok(leafInterpolate(s, vf)),
          correction |-> leafCorrection(s, vf)]

schemeWeights(s, vf) == subScheme(s, vf).weights

schemeInterpolate(s, vf) == subScheme(s, vf).interpolate

schemeCorrection(s, vf) == subScheme(s, vf).correction

(***************************************************************************)
(* The inputs: parameter streams, positioned after the type name           *)
(* "cellCoBlended", and the volume fields the member functions are given.  *)
(***************************************************************************)
CoVals == {<<-1, 1>>, Zero, Half, <<3, 2>>}

FluxNames == {"phi", "phiMissing"}

Specs1Mesh ==
    {<<Word("linear")>>,
     <<Word("linearUpwind"), Word("phi"), Word("grad(U)")>>,
     <<Word("bogus")>>}

Specs2Mesh ==
    {<<Word("linear")>>,
     <<Word("LUST"), Word("phi"), Word("grad(U)")>>,
     <<Word("bogus")>>}

Specs1MeshFlux ==
    {<<Word("linear")>>, <<Word("linearUpwind"), Word("grad(U)")>>, <<Word("bogus")>>}

Specs2MeshFlux ==
    {<<Word("linear")>>, <<Word("LUST"), Word("grad(U)")>>, <<Word("bogus")>>}

StreamsMesh ==
    {<<Num(a)>> \o s1 \o <<Num(b)>> \o s2 \o <<Word(n)>> :
        a \in CoVals, b \in CoVals, s1 \in Specs1Mesh, s2 \in Specs2Mesh,
        n \in FluxNames}

StreamsMeshFlux ==
    {<<Num(a)>> \o s1 \o <<Num(b)>> \o s2 :
        a \in CoVals, b \in CoVals, s1 \in Specs1MeshFlux, s2 \in Specs2MeshFlux}

VolFields ==
    {[name |-> "U", i |-> [c \in Cells |-> c * c],
                    b |-> [f \in BoundaryFaces |-> IF f = NCells THEN 0 ELSE 7]]}

NoRes == [op |-> "none"]

NoCtor == [form |-> "none"]

Init ==
    /\ Vsc = AlternatingVolumes
    /\ \E k \in EnvKinds : phiDims = k[1] /\ rho = k[2]
    /\ CoScheme \in CoSchemes
    /\ phi = [f \in Faces |-> 0]
    /\ deltaT = One
    /\ scheme = NoScheme
    /\ ctor = NoCtor
    /\ res = NoRes

(***************************************************************************)
(* Construction, once, when the schemes are resolved.  A fatal error ends  *)
(* the run: no scheme object exists afterwards.                            *)
(***************************************************************************)
ConstructMesh(is) ==
    /\ ctor.form = "none"
    /\ LET r == cellCoBlendedMesh(is, 1) IN
        /\ scheme' = r.obj
        /\ ctor' = [form |-> "Mesh", is |-> is, faceFlux |-> "",
                    st |-> r.st, pos |-> r.pos]
    /\ UNCHANGED <<Vsc, phiDims, rho, CoScheme, phi, deltaT, res>>

ConstructMeshFlux(faceFlux, is) ==
    /\ ctor.form = "none"
    /\ LET r == cellCoBlendedMeshFlux(faceFlux, is, 1) IN
        /\ scheme' = r.obj
        /\ ctor' = [form |-> "MeshFlux", is |-> is, faceFlux |-> faceFlux,
                    st |-> r.st, pos |-> r.pos]
    /\ UNCHANGED <<Vsc, phiDims, rho, CoScheme, phi, deltaT, res>>

(***************************************************************************)
(* The solver: it updates the flux field and the time step between the     *)
(* evaluations of the scheme.                                              *)
(***************************************************************************)
SetFlux(newPhi) ==
    /\ scheme # NoScheme
    /\ phi # newPhi
    /\ phi' = newPhi
    /\ res' = NoRes
    /\ UNCHANGED <<Vsc, phiDims, rho, CoScheme, deltaT, scheme, ctor>>

SetDeltaT(dt) ==
    /\ scheme # NoScheme
    /\ deltaT # dt
    /\ deltaT' = dt
    /\ res' = NoRes
    /\ UNCHANGED <<Vsc, phiDims, rho, CoScheme, phi, scheme, ctor>>

(***************************************************************************)
(* The member functions, called on the constructed scheme.                 *)
(***************************************************************************)
CallBlendingFactor(vf) ==
    /\ scheme # NoScheme
    /\ res' = [op |-> "blendingFactor", vf |-> vf, r |-> blendingFactor(scheme, vf)]
    /\ UNCHANGED <<Vsc, phiDims, rho, CoScheme, phi, deltaT, scheme, ctor>>

CallWeights(vf) ==
    /\ scheme # NoScheme
    /\ res' = [op |-> "weights", vf |-> vf, r |-> weights(scheme, vf)]
    /\ UNCHANGED <<Vsc, phiDims, rho, CoScheme, phi, deltaT, scheme, ctor>>

CallInterpolate(vf) ==
    /\ scheme # NoScheme
    /\ res' = [op |-> "interpolate", vf |-> vf, r |-> interpolate(scheme, vf)]
    /\ UNCHANGED <<Vsc, phiDims, rho, CoScheme, phi, deltaT, scheme, ctor>>

CallCorrected ==
    /\ scheme # NoScheme
    /\ res' = [op |-> "corrected", r |-> corrected(scheme)]
    /\ UNCHANGED <<Vsc, phiDims, rho, CoScheme, phi, deltaT, scheme, ctor>>

CallCorrection(vf) ==
    /\ scheme # NoScheme
    /\ res' = [op |-> "correction", vf |-> vf, r |-> correction(scheme, vf)]
    /\ UNCHANGED <<Vsc, phiDims, rho, CoScheme, phi, deltaT, scheme, ctor>>

Next ==
    \/ ctor.form = "none" /\ \E is \in StreamsMesh : ConstructMesh(is)
    \/ ctor.form = "none" /\ \E faceFlux \in RegisteredFlux, is \in StreamsMeshFlux :
                                 ConstructMeshFlux(faceFlux, is)
    \/ \E newPhi \in PhiFields : SetFlux(newPhi)
    \/ \E dt \in DeltaTs : SetDeltaT(dt)
    \/ \E vf \in VolFields : CallBlendingFactor(vf)
    \/ \E vf \in VolFields : CallWeights(vf)
    \/ \E vf \in VolFields : CallInterpolate(vf)
    \/ CallCorrected
    \/ \E vf \in VolFields : CallCorrection(vf)

Spec == Init /\ [][Next]_vars

(***************************************************************************)
(* The worked case: a row of unit cells, a volumetric flux of magnitude 4  *)
(* through one face, time steps 0.1 and 1, Co1 = 0.1 and Co2 = 1, and a    *)
(* field that has the same value in every cell and on the boundary.        *)
(***************************************************************************)
ExamplePhiFields ==
    {[f \in Faces |-> 0]}
        \cup {[f \in Faces |-> IF f = g THEN a ELSE 0] : g \in Faces, a \in {-4, 4}}

ExampleDeltaTs == {<<1, 10>>, One}

ExampleStreamsMesh ==
    {<<Num(<<1, 10>>)>> \o s1 \o <<Num(One)>> \o s2 \o <<Word("phi")>> :
        s1 \in Specs1Mesh \ {<<Word("bogus")>>}, s2 \in Specs2Mesh \ {<<Word("bogus")>>}}

ExampleStreamsMeshFlux ==
    {<<Num(<<1, 10>>)>> \o s1 \o <<Num(One)>> \o s2 :
        s1 \in Specs1MeshFlux \ {<<Word("bogus")>>},
        s2 \in Specs2MeshFlux \ {<<Word("bogus")>>}}

\* the field of value C everywhere
UniformField(C) ==
    [name |-> "T", i |-> [c \in Cells |-> C], b |-> [f \in BoundaryFaces |-> C]]

ExampleVolFields == VolFields \cup {UniformField(3)}

InitExample ==
    /\ Vsc = UnitVolumes
    /\ phiDims = dimFlux
    /\ rho = NoRho
    /\ CoScheme \in CoSchemes
    /\ phi = [f \in Faces |-> 0]
    /\ deltaT = One
    /\ scheme = NoScheme
    /\ ctor = NoCtor
    /\ res = NoRes

NextExample ==
    \/ ctor.form = "none" /\ \E is \in ExampleStreamsMesh : ConstructMesh(is)
    \/ ctor.form = "none" /\ \E is \in ExampleStreamsMeshFlux : ConstructMeshFlux("phi", is)
    \/ \E newPhi \in ExamplePhiFields : SetFlux(newPhi)
    \/ \E dt \in ExampleDeltaTs : SetDeltaT(dt)
    \/ \E vf \in ExampleVolFields : CallBlendingFactor(vf)
    \/ \E vf \in ExampleVolFields : CallWeights(vf)
    \/ \E vf \in ExampleVolFields : CallInterpolate(vf)
    \/ CallCorrected
    \/ \E vf \in ExampleVolFields : CallCorrection(vf)

SpecExample == InitExample /\ [][NextExample]_vars

(***************************************************************************)
(* Construction from nested specifications: blended schemes whose          *)
(* sub-schemes are blended schemes, streams with unknown scheme names or   *)
(* an unregistered flux name, and streams with a token left after scheme2, *)
(* in a case with a volumetric flux.                                       *)
(***************************************************************************)
\* the tokens of a nested blended scheme, type name first
BlendedMesh(a, s1, b, s2, n) ==
    <<Word("cellCoBlended"), Num(a)>> \o s1 \o <<Num(b)>> \o s2 \o <<Word(n)>>

BlendedMeshFlux(a, s1, b, s2) ==
    <<Word("cellCoBlended"), Num(a)>> \o s1 \o <<Num(b)>> \o s2

\* streams with a blended scheme as scheme1, with blended schemes nested
\* two deep as scheme2, and with an inner scheme of bad coefficients
NestedStreamsMesh ==
    LET linear == <<Word("linear")>>
        linearUpwind == <<Word("linearUpwind"), Word("phi"), Word("grad(U)")>>
        LUST == <<Word("LUST"), Word("phi"), Word("grad(U)")>>
        inner == BlendedMesh(Half, linear, <<3, 2>>, linear, "phi")
    IN  {<<Num(Zero)>> \o BlendedMesh(Zero, linear, Half, linearUpwind, "phi")
             \o <<Num(<<3, 2>>)>> \o linear \o <<Word("phi")>>,
         <<Num(Zero)>> \o linear \o <<Num(Half)>>
             \o BlendedMesh(Zero, inner, Half, LUST, "phi") \o <<Word("phi")>>,
         <<Num(Zero)>> \o BlendedMesh(Half, linear, Zero, linear, "phi")
             \o <<Num(Half)>> \o linear \o <<Word("phi")>>}

NestedStreamsMeshFlux ==
    LET linear == <<Word("linear")>>
        linearUpwind == <<Word("linearUpwind"), Word("grad(U)")>>
        LUST == <<Word("LUST"), Word("grad(U)")>>
        inner == BlendedMeshFlux(Half, linear, <<3, 2>>, linear)
    IN  {<<Num(Zero)>> \o BlendedMeshFlux(Zero, linear, Half, linearUpwind)
             \o <<Num(<<3, 2>>)>> \o linear,
         <<Num(Zero)>> \o linear \o <<Num(Half)>>
             \o BlendedMeshFlux(Zero, inner, Half, LUST),
         <<Num(Zero)>> \o BlendedMeshFlux(Half, linear, Zero, linear)
             \o <<Num(Half)>> \o linear}

\* streams of the explicit-flux form with a further token after scheme2
TrailingStreamsMeshFlux ==
    {<<Num(Zero), Word("linear"), Num(Half)>> \o s2 \o <<Word("phi0")>> :
        s2 \in Specs2MeshFlux}

\* the streams without nesting, with Co1 = 0 and Co2 = 1/2
PlainStreamsMesh ==
    {<<Num(Zero)>> \o s1 \o <<Num(Half)>> \o s2 \o <<Word(n)>> :
        s1 \in Specs1Mesh, s2 \in Specs2Mesh, n \in FluxNames}

PlainStreamsMeshFlux ==
    {<<Num(Zero)>> \o s1 \o <<Num(Half)>> \o s2 :
        s1 \in Specs1MeshFlux, s2 \in Specs2MeshFlux}

\* coefficient pairs the range check rejects: Co1 < 0, Co2 < 0, Co1 = Co2
\* and Co1 > Co2
BadCoPairs == {<<(<<-1, 1>>), Half>>, <<Zero, (<<-1, 1>>)>>, <<Half, Half>>, <<Half, Zero>>}

\* the streams without nesting, with coefficients out of range
BadCoeffsStreamsMesh ==
    {<<Num(c[1])>> \o s1 \o <<Num(c[2])>> \o s2 \o <<Word(n)>> :
        c \in BadCoPairs, s1 \in Specs1Mesh, s2 \in Specs2Mesh, n \in FluxNames}

BadCoeffsStreamsMeshFlux ==
    {<<Num(c[1])>> \o s1 \o <<Num(c[2])>> \o s2 :
        c \in BadCoPairs, s1 \in Specs1MeshFlux, s2 \in Specs2MeshFlux}

NestedPhiFields ==
    {[f \in Faces |-> a] : a \in PhiVals}
        \cup {[f \in Faces |-> IF isInternal(f) THEN a ELSE 0] : a \in PhiVals}

InitNested ==
    /\ Vsc = AlternatingVolumes
    /\ phiDims = dimFlux
    /\ rho = NoRho
    /\ CoScheme = "linear"
    /\ phi = [f \in Faces |-> 0]
    /\ deltaT = One
    /\ scheme = NoScheme
    /\ ctor = NoCtor
    /\ res = NoRes

NextNested ==
    \/ ctor.form = "none" /\ \E is \in PlainStreamsMesh \cup NestedStreamsMesh
                                            \cup BadCoeffsStreamsMesh :
                                 ConstructMesh(is)
    \/ ctor.form = "none"
           /\ \E faceFlux \in RegisteredFlux,
                 is \in PlainStreamsMeshFlux \cup NestedStreamsMeshFlux
                            \cup TrailingStreamsMeshFlux
                            \cup BadCoeffsStreamsMeshFlux :
                     ConstructMeshFlux(faceFlux, is)
    \/ \E newPhi \in NestedPhiFields : SetFlux(newPhi)
    \/ \E dt \in DeltaTs : SetDeltaT(dt)
    \/ \E vf \in VolFields : CallBlendingFactor(vf)
    \/ \E vf \in VolFields : CallWeights(vf)
    \/ \E vf \in VolFields : CallInterpolate(vf)
    \/ CallCorrected
    \/ \E vf \in VolFields : CallCorrection(vf)

SpecNested == InitNested /\ [][NextNested]_vars

(***************************************************************************)
(* Properties.                                                             *)
(***************************************************************************)
\* the numbers of a parameter stream, in stream order: Co1 and Co2
CoefficientsOf(is) == SelectSeq(is, LAMBDA t : t.k = "num")

\* every scheme name and field name of the stream can be resolved
Resolvable(is) ==
    \A j \in 1..Len(is) : is[j].k = "word" => is[j].w \notin {"bogus", "phiMissing"}

Constructed == ctor.form # "none" /\ ctor.st = "ok"

BlendingFactorReturned == res.op = "blendingFactor" /\ res.r.st = "ok"

\* x limited to [lo, hi]
clamp(x, lo, hi) == IF Less(x, lo) THEN lo ELSE IF Less(hi, x) THEN hi ELSE x

BlendingFactorInUnitInterval ==
    BlendingFactorReturned =>
        \A f \in Faces : LessEq(Zero, res.r.val[f]) /\ LessEq(res.r.val[f], One)

\* C2 happens: a mass flux gave a factor strictly inside the ramp at one
\* face and a clamped factor at another
BlendingFactorRampAndClamp ==
    /\ BlendingFactorReturned
    /\ lookupFlux(scheme.faceFlux_).dimensions = dimMassFlux
    /\ \E f \in Faces : Less(Zero, res.r.val[f]) /\ Less(res.r.val[f], One)
    /\ \E f \in Faces : res.r.val[f] \in {Zero, One}

\* C3: at every face the factor is 1 - clamp((Co_face - Co1)/(Co2 - Co1), 0, 1):
\* 1 where Co_face <= Co1, 0 where Co_face >= Co2, 1/2 where Co_face is the
\* midpoint of Co1 and Co2.
BlendingFactorIsClampedRamp ==
    BlendingFactorReturned =>
        \A f \in Faces :
            LET Cof == res.r.CoFace[f]
                bf == res.r.val[f]
            IN  /\ bf = Sub(One, clamp(Div(Sub(Cof, scheme.Co1_),
                                           Sub(scheme.Co2_, scheme.Co1_)), Zero, One))
                /\ LessEq(Cof, scheme.Co1_) => bf = One
                /\ LessEq(scheme.Co2_, Cof) => bf = Zero
                /\ Cof = Mul(Half, Add(scheme.Co1_, scheme.Co2_)) => bf = Half

\* C3 happens: with Co1 > 0 one face sits at the midpoint of the ramp and
\* another at or below Co1
BlendingFactorAtMidpoint ==
    /\ BlendingFactorReturned
    /\ Less(Zero, scheme.Co1_)
    /\ \E f \in Faces : res.r.CoFace[f] = Mul(Half, Add(scheme.Co1_, scheme.Co2_))
    /\ \E f \in Faces : LessEq(res.r.CoFace[f], scheme.Co1_)

\* face Courant numbers to compare a returned factor with: 0, 1/4, .., 2
CoSamples == {<<k, 4>> : k \in 0..8}

\* C4: with Co1 and Co2 fixed the factor is non-increasing in the face
\* Courant number: of two faces, and of a face and any sampled Courant
\* number, the larger Courant number has the smaller or equal factor.
BlendingFactorNonIncreasing ==
    BlendingFactorReturned =>
        /\ \A f, g \in Faces :
                LessEq(res.r.CoFace[f], res.r.CoFace[g]) =>
                    LessEq(res.r.val[g], res.r.val[f])
        /\ \A f \in Faces, b \in CoSamples :
                LET bfb == faceBlendingFactor(b, scheme.Co1_, scheme.Co2_)
                IN  /\ LessEq(res.r.CoFace[f], b) => LessEq(bfb, res.r.val[f])
                    /\ LessEq(b, res.r.CoFace[f]) => LessEq(res.r.val[f], bfb)

\* C4 happens: two faces with different Courant numbers got different factors
BlendingFactorStrictlyDecreases ==
    /\ BlendingFactorReturned
    /\ \E f, g \in Faces :
            /\ Less(res.r.CoFace[f], res.r.CoFace[g])
            /\ Less(res.r.val[g], res.r.val[f])

\* the two faces that bound a cell of the row
leftFace(c) == IF c = 1 THEN NCells ELSE c - 1

rightFace(c) == IF c = NCells THEN NCells + 1 ELSE c

\* C5: the cell Courant number is the sum of the magnitudes of the
\* volumetric flux over the faces of the cell, divided by the cell volume,
\* times 0.5 deltaT; it is never negative.
CellCourantNumber ==
    BlendingFactorReturned =>
        \A c \in Cells :
            LET U == res.r.Uflux
                sumMag == Add(mag(U[leftFace(c)]), mag(U[rightFace(c)]))
            IN  /\ Mul(Mul(res.r.Co[c], V(c)), Scalar(2)) = Mul(sumMag, deltaT)
                /\ LessEq(Zero, res.r.Co[c])

\* C5 happens: a negative flux through an internal face gave both of its
\* cells a positive Courant number
NegativeFluxCountedInBothCells ==
    /\ BlendingFactorReturned
    /\ \E f \in InternalFaces :
            /\ Less(res.r.Uflux[f], Zero)
            /\ Less(Zero, res.r.Co[owner(f)])
            /\ Less(Zero, res.r.Co[neighbour(f)])

\* the blending factor and the two sub-schemes' results in the state of the
\* call whose result res holds
bfNow == blendingFactor(scheme, res.vf).val

corrected1 == schemeCorrected(scheme.tScheme1_)

corrected2 == schemeCorrected(scheme.tScheme2_)

StrictlyInside(x) == Less(Zero, x) /\ Less(x, One)

\* C6: at every face weights(vf) is bf * scheme1.weights(vf) +
\* (1 - bf) * scheme2.weights(vf), bf being blendingFactor(vf) of that call.
WeightsAreBlendOfSubSchemes ==
    (res.op = "weights" /\ res.r.st = "ok") =>
        LET w1 == schemeWeights(scheme.tScheme1_, res.vf).val
            w2 == schemeWeights(scheme.tScheme2_, res.vf).val
        IN  \A f \in Faces :
                res.r.val[f] = Add(Mul(bfNow[f], w1[f]),
                                   Mul(Sub(One, bfNow[f]), w2[f]))

\* C6 happens: weights returned at a face where the sub-schemes' weights
\* differ and the factor is strictly between 0 and 1, but not 1/2
WeightsBlendedInsideRamp ==
    /\ res.op = "weights" /\ res.r.st = "ok"
    /\ \E f \in InternalFaces :
            /\ StrictlyInside(bfNow[f]) /\ bfNow[f] # Half
            /\ schemeWeights(scheme.tScheme1_, res.vf).val[f]
                   # schemeWeights(scheme.tScheme2_, res.vf).val[f]

\* C7: at every face interpolate(vf) is bf * scheme1.interpolate(vf) +
\* (1 - bf) * scheme2.interpolate(vf), bf being blendingFactor(vf) of that
\* call.
InterpolateIsBlendOfSubSchemes ==
    (res.op = "interpolate" /\ res.r.st = "ok") =>
        LET i1 == schemeInterpolate(scheme.tScheme1_, res.vf).val
            i2 == schemeInterpolate(scheme.tScheme2_, res.vf).val
        IN  \A f \in Faces :
                res.r.val[f] = Add(Mul(bfNow[f], i1[f]),
                                   Mul(Sub(One, bfNow[f]), i2[f]))

\* C7 happens: interpolate returned at a face where the sub-schemes'
\* interpolates differ and the factor is strictly between 0 and 1
InterpolateBlendedInsideRamp ==
    /\ res.op = "interpolate" /\ res.r.st = "ok"
    /\ \E f \in InternalFaces :
            /\ StrictlyInside(bfNow[f])
            /\ schemeInterpolate(scheme.tScheme1_, res.vf).val[f]
                   # schemeInterpolate(scheme.tScheme2_, res.vf).val[f]

\* C8: corrected() is the logical OR of the two sub-schemes' corrected(),
\* in each of the four combinations of their answers.
CorrectedIsOrOfSubSchemes ==
    res.op = "corrected" =>
        /\ (corrected1 /\ corrected2) => res.r = TRUE
        /\ (corrected1 /\ ~corrected2) => res.r = TRUE
        /\ (~corrected1 /\ corrected2) => res.r = TRUE
        /\ (~corrected1 /\ ~corrected2) => res.r = FALSE

\* C8 happens: corrected() answered true with only scheme2 corrected
CorrectedBySecondOnly ==
    /\ res.op = "corrected"
    /\ ~corrected1 /\ corrected2
    /\ res.r = TRUE

\* C9: whenever correction(vf) returns, its result is absent exactly when
\* neither sub-scheme is corrected; it is present whenever corrected() of
\* the blended scheme is true.
CorrectionAbsentIffNeitherCorrected ==
    (res.op = "correction" /\ res.r.st = "ok") =>
        /\ res.r.null <=> (~corrected1 /\ ~corrected2)
        /\ corrected(scheme) => ~res.r.null

\* C9 happens: correction returned an absent result, neither sub-scheme
\* being corrected
CorrectionAbsent ==
    /\ res.op = "correction" /\ res.r.st = "ok"
    /\ ~corrected1 /\ ~corrected2
    /\ res.r.null

\* C10: a present correction is bf * scheme1.correction(vf) when only
\* scheme1 is corrected, (1 - bf) * scheme2.correction(vf) when only scheme2
\* is, and the sum of the two when both are; the correction of a sub-scheme
\* that is not corrected is never requested.
CorrectionIsBlendOfCorrections ==
    (res.op = "correction" /\ res.r.st = "ok" /\ ~res.r.null) =>
        /\ res.r.requested = {k \in {1, 2} : IF k = 1 THEN corrected1 ELSE corrected2}
        /\ (corrected1 /\ ~corrected2) =>
                LET c1 == schemeCorrection(scheme.tScheme1_, res.vf).val
                IN  \A f \in Faces : res.r.val[f] = Mul(bfNow[f], c1[f])
        /\ (~corrected1 /\ corrected2) =>
                LET c2 == schemeCorrection(scheme.tScheme2_, res.vf).val
                IN  \A f \in Faces : res.r.val[f] = Mul(Sub(One, bfNow[f]), c2[f])
        /\ (corrected1 /\ corrected2) =>
                LET c1 == schemeCorrection(scheme.tScheme1_, res.vf).val
                    c2 == schemeCorrection(scheme.tScheme2_, res.vf).val
                IN  \A f \in Faces :
                        res.r.val[f] = Add(Mul(bfNow[f], c1[f]),
                                           Mul(Sub(One, bfNow[f]), c2[f]))

\* C10 happens: with only scheme2 corrected, a non-zero correction was
\* returned at a face whose factor is strictly between 0 and 1, not 1/2
CorrectionOfSecondOnlyInsideRamp ==
    /\ res.op = "correction" /\ res.r.st = "ok" /\ ~res.r.null
    /\ ~corrected1 /\ corrected2
    /\ \E f \in InternalFaces :
            /\ StrictlyInside(bfNow[f]) /\ bfNow[f] # Half
            /\ res.r.val[f] # Zero

\* the dimensions of the flux field the scheme is bound to
fluxDimensions == lookupFlux(scheme.faceFlux_).dimensions

\* the member functions that evaluate the blending factor
BlendingOps == {"blendingFactor", "weights", "interpolate", "correction"}

\* C11: blendingFactor ends in the fatal dimensions error whenever the flux
\* is neither a mass flux nor a volumetric flux, and never ends in it when
\* the flux is one of the two; weights, interpolate and correction end in
\* the same error whenever blendingFactor does.
DimensionsErrorIffNeitherFlux ==
    res.op \in BlendingOps =>
        /\ fluxDimensions \notin {dimMassFlux, dimFlux} => res.r.st = "dimensions"
        /\ (res.op = "blendingFactor" /\ fluxDimensions \in {dimMassFlux, dimFlux}) =>
                res.r.st # "dimensions"
        /\ blendingFactor(scheme, res.vf).st = "dimensions" => res.r.st = "dimensions"

\* C11 happens: interpolate ended in the dimensions error, the flux having
\* the dimensions of a velocity
InterpolateFailedOnDimensions ==
    /\ res.op = "interpolate"
    /\ fluxDimensions = dimVelocity
    /\ res.r.st = "dimensions"

\* the density field has the same positive value in every cell
UniformDensity ==
    /\ rho # NoRho
    /\ \A c \in Cells : rho[c] = rho[1] /\ rho[c] > 0

\* the volumetric flux equivalent to the mass flux phi under a uniform
\* density: every face value divided by the density
equivalentVolumetricFlux == [f \in Faces |-> Div(Scalar(phi[f]), Scalar(rho[1]))]

\* C12: with a mass flux and a uniform density rho > 0, blendingFactor from
\* the mass flux equals, face by face, the blending factor of the
\* volumetric flux mass flux / rho: the one the volumetric branch computes
\* from that flux, with the cell Courant numbers summed from its magnitudes.
MassFluxEqualsVolumetricFlux ==
    (BlendingFactorReturned /\ scheme.faceFlux_ = "phi"
        /\ phiDims = dimMassFlux /\ UniformDensity) =>
        LET U == equivalentVolumetricFlux
            Co == [c \in Cells |->
                      Div(Mul(Add(mag(U[leftFace(c)]), mag(U[rightFace(c)])), deltaT),
                          Mul(Scalar(2), V(c)))]
            viaVolume == blendingFactorOf(scheme, U, cellCo(U))
        IN  /\ res.r.Uflux = U
            /\ res.r.Co = Co
            /\ \A f \in Faces : res.r.val[f] = viaVolume.val[f]

\* C12 happens: with a density other than 1, a mass flux gave a factor
\* strictly between 0 and 1 at a face the flux is not zero at
MassFluxFactorInsideRamp ==
    /\ BlendingFactorReturned /\ scheme.faceFlux_ = "phi"
    /\ phiDims = dimMassFlux /\ UniformDensity /\ rho[1] # 1
    /\ \E f \in Faces : StrictlyInside(res.r.val[f]) /\ phi[f] # 0

\* the field has the value C in every cell and on every boundary face
IsUniform(vf, C) ==
    /\ \A c \in Cells : vf.i[c] = C
    /\ \A f \in BoundaryFaces : vf.b[f] = C

\* C13: for a field equal to a constant C everywhere, the weights the
\* scheme returns, applied to the field, give C at every face, and so does
\* interpolate, whatever the blending factor is (the sub-schemes linear,
\* linearUpwind and LUST reproduce a uniform field).
UniformFieldReproduced ==
    \A C \in {3} :
        (res.op \in {"weights", "interpolate"} /\ res.r.st = "ok"
            /\ IsUniform(res.vf, C)) =>
            \A f \in Faces :
                /\ res.op = "weights" =>
                        interpolateWith(res.vf, res.r.val)[f] = Scalar(C)
                /\ res.op = "interpolate" => res.r.val[f] = Scalar(C)

\* C13 happens: interpolate returned for the uniform field with a factor
\* strictly between 0 and 1 at an internal face, one sub-scheme being
\* corrected
UniformFieldInterpolatedInsideRamp ==
    /\ res.op = "interpolate" /\ res.r.st = "ok"
    /\ IsUniform(res.vf, 3)
    /\ corrected1
    /\ \E f \in InternalFaces : StrictlyInside(bfNow[f])

\* the cells a face belongs to
cellsOf(f) == IF isInternal(f) THEN {owner(f), neighbour(f)} ELSE {faceCells(f)}

\* the flux is a or -a through the face f and zero through every other face
FluxThroughOnly(f, a) ==
    /\ phi[f] \in {a, 0 - a}
    /\ \A g \in Faces \ {f} : phi[g] = 0

\* C16: at a face whose cells have the same Courant number c, the face
\* Courant number is c and the factor is 1 - clamp((c - Co1)/(Co2 - Co1), 0, 1).
\* With unit volumes, time step 0.1 and a flux of magnitude 4 through one
\* internal face only, both cells of the face have c = 0.2, and with
\* Co1 = 0.1 and Co2 = 1 the factor at the face is 8/9.
UniformCourantGivesRampValue ==
    BlendingFactorReturned =>
        \A f \in Faces :
            /\ \A c \in Cells :
                    (\A d \in cellsOf(f) : res.r.Co[d] = res.r.Co[c]) =>
                        /\ res.r.CoFace[f] = res.r.Co[c]
                        /\ res.r.val[f] =
                               Sub(One, clamp(Div(Sub(res.r.Co[c], scheme.Co1_),
                                                  Sub(scheme.Co2_, scheme.Co1_)),
                                              Zero, One))
            /\ (/\ isInternal(f) /\ FluxThroughOnly(f, 4)
                /\ Vsc = UnitVolumes /\ deltaT = <<1, 10>>
                /\ scheme.Co1_ = <<1, 10>> /\ scheme.Co2_ = One) =>
                    /\ \A d \in cellsOf(f) : res.r.Co[d] = <<1, 5>>
                    /\ res.r.CoFace[f] = <<1, 5>>
                    /\ res.r.val[f] = <<8, 9>>

\* C16 happens: blendingFactor returned in the worked case, the flux being
\* -4 through the internal face
WorkedCaseEvaluated ==
    /\ BlendingFactorReturned
    /\ Vsc = UnitVolumes /\ deltaT = <<1, 10>>
    /\ scheme.Co1_ = <<1, 10>> /\ scheme.Co2_ = One
    /\ \E f \in InternalFaces : FluxThroughOnly(f, 4) /\ phi[f] = -4

\* the fields and the time step the scheme reads
env == <<Vsc, phiDims, rho, CoScheme, phi, deltaT>>

\* what the member function op of the scheme returns for vf now
resultOf(op, vf) ==
    IF op = "blendingFactor" THEN blendingFactor(scheme, vf)
    ELSE IF op = "weights" THEN weights(scheme, vf)
    ELSE IF op = "interpolate" THEN interpolate(scheme, vf)
    ELSE IF op = "correction" THEN correction(scheme, vf)
    ELSE corrected(scheme)

\* the volumetric flux of the field "phi" as it is now
volumetricFluxNow ==
    IF phiDims = dimMassFlux THEN equivalentVolumetricFlux
    ELSE [f \in Faces |-> Scalar(phi[f])]

\* the result r of a call is the one the flux, density, volumes and time
\* step of this state give
ReflectsCurrentFields(r) ==
    /\ r.r = resultOf(r.op, IF r.op = "corrected" THEN <<>> ELSE r.vf)
    /\ (r.op = "blendingFactor" /\ r.r.st = "ok" /\ scheme.faceFlux_ = "phi") =>
            /\ r.r.Uflux = volumetricFluxNow
            /\ \A c \in Cells :
                    Mul(Mul(r.r.Co[c], V(c)), Scalar(2)) =
                        Mul(Add(mag(volumetricFluxNow[leftFace(c)]),
                                mag(volumetricFluxNow[rightFace(c)])), deltaT)

\* C15: no step changes Co1, Co2, the sub-schemes or the flux reference of
\* a constructed scheme; a call of blendingFactor, weights, interpolate,
\* corrected or correction changes no field either, and its result is the
\* one the flux, density, cell volumes and time step of that moment give,
\* whatever was called or set before.
NothingCachedBetweenCalls ==
    [][(scheme # NoScheme) =>
            /\ scheme' = scheme
            /\ (res' # res /\ res'.op # "none") =>
                    /\ env' = env
                    /\ ReflectsCurrentFields(res')]_vars

\* C15 happens: blendingFactor returned after the flux and the time step
\* had been changed, with a Courant number other than zero
CalledAfterFluxAndTimeStepChanged ==
    /\ BlendingFactorReturned /\ scheme.faceFlux_ = "phi"
    /\ phi # [f \in Faces |-> 0]
    /\ deltaT # One
    /\ \E c \in Cells : res.r.Co[c] # Zero

\* C18: "rho" is looked up only for a mass flux: with a volumetric flux
\* blendingFactor returns whether or not "rho" is registered, and the
\* registered density does not change the result; with a mass flux and no
\* "rho" registered it ends in the lookup error, and in no other case.
RhoLookedUpOnlyForMassFlux ==
    res.op = "blendingFactor" =>
        /\ fluxDimensions = dimFlux =>
                /\ res.r.st = "ok"
                /\ scheme.faceFlux_ = "phi" =>
                        res.r.Uflux = [f \in Faces |-> Scalar(phi[f])]
        /\ (fluxDimensions = dimMassFlux /\ rho = NoRho) => res.r.st = "lookup"
        /\ res.r.st = "lookup" => (fluxDimensions = dimMassFlux /\ rho = NoRho)

\* C18 happens: blendingFactor returned for a volumetric flux with no "rho"
\* registered
VolumetricFluxWithoutRho ==
    /\ BlendingFactorReturned
    /\ fluxDimensions = dimFlux
    /\ rho = NoRho
    /\ phi # [f \in Faces |-> 0]

\* blendingFactor cannot return in this state: the flux has neither the
\* dimensions of a mass flux nor of a volumetric flux, or it is a mass flux
\* and "rho" is not registered
FluxUnusable ==
    \/ fluxDimensions \notin {dimMassFlux, dimFlux}
    \/ fluxDimensions = dimMassFlux /\ rho = NoRho

\* C20: correction(vf) evaluates the blending factor before it looks at the
\* corrected() flags: with neither sub-scheme corrected and a flux of wrong
\* dimensions it ends in the dimensions error, with a mass flux and "rho"
\* missing in the lookup error, never in an absent result; corrected()
\* answers true or false whatever the flux is.
CorrectionFailsBeforeFlags ==
    /\ (res.op = "correction" /\ ~corrected1 /\ ~corrected2) =>
            /\ fluxDimensions \notin {dimMassFlux, dimFlux} =>
                    res.r.st = "dimensions"
            /\ (fluxDimensions = dimMassFlux /\ rho = NoRho) => res.r.st = "lookup"
            /\ FluxUnusable => res.r # Corr(Null, {})
    /\ res.op = "corrected" =>
            /\ res.r \in BOOLEAN
            /\ res.r = (corrected1 \/ corrected2)

\* C20 happens: with neither sub-scheme corrected, correction ended in the
\* lookup error for a mass flux without "rho"
UncorrectedCorrectionFailed ==
    /\ res.op = "correction"
    /\ ~corrected1 /\ ~corrected2
    /\ fluxDimensions = dimMassFlux /\ rho = NoRho
    /\ res.r.st = "lookup"

(***************************************************************************)
(* The grammar of a scheme specification, read off the token stream:       *)
(*   linear | linearUpwind [flux] grad | LUST [flux] grad                  *)
(*   | cellCoBlended Co1 spec Co2 spec [flux]                              *)
(* with the flux names present in the name-lookup form ("Mesh") only.      *)
(***************************************************************************)
RECURSIVE specEnd(_, _, _), specTree(_, _, _, _)

\* the position after the specification that starts at position p
specEnd(form, is, p) ==
    IF p > Len(is) \/ is[p].k # "word" THEN p
    ELSE IF is[p].w \in {"linearUpwind", "LUST"}
    THEN IF form = "Mesh" THEN p + 3 ELSE p + 2
    ELSE IF is[p].w = "cellCoBlended"
    THEN IF form = "Mesh"
         THEN specEnd(form, is, specEnd(form, is, p + 2) + 1) + 1
         ELSE specEnd(form, is, specEnd(form, is, p + 2) + 1)
    ELSE p + 1

\* the blended scheme whose Co1 is at position q and whose Co2 is at e1
blendedTree(form, flux, is, q, e1) ==
    [type |-> "cellCoBlended",
     Co1_ |-> is[q].v, tScheme1_ |-> specTree(form, flux, is, q + 1),
     Co2_ |-> is[e1].v, tScheme2_ |-> specTree(form, flux, is, e1 + 1),
     faceFlux_ |-> IF form = "Mesh" THEN is[specEnd(form, is, e1 + 1)].w ELSE flux]

\* the scheme a well-formed specification at position p stands for
specTree(form, flux, is, p) ==
    IF is[p].w = "linear" THEN [type |-> "linear"]
    ELSE IF is[p].w \in {"linearUpwind", "LUST"}
    THEN [type |-> is[p].w,
          faceFlux_ |-> IF form = "Mesh" THEN is[p + 1].w ELSE flux,
          gradSchemeName_ |-> is[specEnd(form, is, p) - 1].w]
    ELSE blendedTree(form, flux, is, p + 1, specEnd(form, is, p + 2))

\* the specification at position p names only registered schemes and fields
resolvableSpec(form, is, p) ==
    \A j \in p..(specEnd(form, is, p) - 1) :
        is[j].k = "word" => is[j].w \notin {"bogus", "phiMissing"}

\* the positions of Co2 and of the flux name in a stream of the name-lookup
\* form
posCo2(is) == specEnd("Mesh", is, 2)

posFluxName(is) == specEnd("Mesh", is, posCo2(is) + 1)

\* C14: the name-lookup constructor reads Co1, the specification of
\* scheme1, Co2, the specification of scheme2 and the flux name, in this
\* order: a constructed scheme has the first token as Co1, the scheme of
\* the tokens that follow as scheme1, the token after them as Co2, the
\* scheme of the next tokens as scheme2 and the last token as flux name;
\* when scheme1 cannot be resolved Co2 has not been read, when scheme2
\* cannot be resolved Co2 has been read and the flux name has not, and the
\* flux name is looked up with every token consumed.
StreamConsumedInOrder ==
    ctor.form = "Mesh" =>
        LET is == ctor.is
            e1 == posCo2(ctor.is)
            e2 == posFluxName(ctor.is)
        IN  /\ ctor.st = "ok" =>
                /\ scheme.Co1_ = is[1].v
                /\ scheme.tScheme1_ = specTree("Mesh", "", is, 2)
                /\ scheme.Co2_ = is[e1].v
                /\ scheme.tScheme2_ = specTree("Mesh", "", is, e1 + 1)
                /\ scheme.faceFlux_ = is[e2].w
                /\ e2 = Len(is)
                /\ ctor.pos = Len(is) + 1
            /\ ~resolvableSpec("Mesh", is, 2) =>
                /\ ctor.st = "unknownScheme"
                /\ ctor.pos <= e1
            /\ (resolvableSpec("Mesh", is, 2) /\ ctor.st # "ok" /\ ctor.pos <= e1) =>
                /\ ctor.st = "coeffs"
                /\ is[2].w = "cellCoBlended"
            /\ (resolvableSpec("Mesh", is, 2) /\ ~resolvableSpec("Mesh", is, e1 + 1)) =>
                /\ ctor.st = "unknownScheme"
                /\ e1 < ctor.pos /\ ctor.pos <= e2
            /\ ctor.st = "lookup" =>
                /\ is[e2].w = "phiMissing"
                /\ ctor.pos = e2 + 1
                /\ e2 = Len(is)

\* C14 happens: the name-lookup constructor built a scheme whose scheme1 and
\* scheme2 take several tokens each
ConstructedFromLongSpecifications ==
    /\ ctor.form = "Mesh" /\ ctor.st = "ok"
    /\ posCo2(ctor.is) > 3
    /\ posFluxName(ctor.is) > posCo2(ctor.is) + 2

\* the positions of the stream at which a nested blended scheme starts
nestedAt(is) == {p \in 1..Len(is) : is[p].k = "word" /\ is[p].w = "cellCoBlended"}

\* what New(..) returns for the specification at position p
newAt(form, flux, is, p) ==
    IF form = "Mesh" THEN NewMesh(is, p) ELSE NewMeshFlux(flux, is, p)

\* the position after the parameters of the outermost blended scheme
endOfParameters(form, is) ==
    IF form = "Mesh" THEN posFluxName(is) + 1
    ELSE specEnd(form, is, specEnd(form, is, 2) + 1)

\* C17: a sub-scheme specification may be a cellCoBlended specification, to
\* any depth: in a constructed scheme every nested blended scheme has
\* consumed exactly the tokens of its own specification, the token that
\* follows them is the one its parent reads next, the scheme is the tree
\* the grammar gives for the stream, and the read position ends after the
\* last parameter, each token read once.
NestedSchemesConsumeTheirOwnTokens ==
    (ctor.form # "none" /\ ctor.st = "ok") =>
        LET is == ctor.is
            form == ctor.form
            flux == ctor.faceFlux
        IN  /\ scheme = blendedTree(form, flux, is, 1, specEnd(form, is, 2))
            /\ ctor.pos = endOfParameters(form, is)
            /\ form = "Mesh" => ctor.pos = Len(is) + 1
            /\ \A p \in nestedAt(is) :
                    /\ newAt(form, flux, is, p).st = "ok"
                    /\ newAt(form, flux, is, p).pos = specEnd(form, is, p)
                    /\ newAt(form, flux, is, p).obj = specTree(form, flux, is, p)
                    /\ specEnd(form, is, p) <= Len(is) + 1
                    /\ specEnd(form, is, p) <= Len(is) =>
                            \/ is[specEnd(form, is, p)].k = "num"
                            \/ form = "Mesh" /\ is[specEnd(form, is, p)].k = "word"

\* C17 happens: a scheme was constructed whose scheme2 is a blended scheme
\* that has a blended scheme as its scheme1
ConstructedTwoDeep ==
    /\ ctor.form # "none" /\ ctor.st = "ok"
    /\ scheme.tScheme2_.type = "cellCoBlended"
    /\ scheme.tScheme2_.tScheme1_.type = "cellCoBlended"
    /\ scheme.tScheme2_.tScheme1_.Co1_ = Half

\* the flux fields the schemes of a tree are bound to
RECURSIVE fluxesOf(_)
fluxesOf(s) ==
    IF s.type = "cellCoBlended"
    THEN {s.faceFlux_} \cup fluxesOf(s.tScheme1_) \cup fluxesOf(s.tScheme2_)
    ELSE IF s.type \in {"linearUpwind", "LUST"} THEN {s.faceFlux_}
    ELSE {}

\* C19: the explicit-flux constructor reads Co1, the specification of
\* scheme1, Co2 and the specification of scheme2, and no token after them:
\* the read position ends after scheme2, a further token stays in the
\* stream; the scheme is bound to the flux field passed in, and so is every
\* sub-scheme that takes a flux.
ExplicitFluxBoundWithoutName ==
    (ctor.form = "MeshFlux" /\ ctor.st = "ok") =>
        LET is == ctor.is
            e1 == specEnd("MeshFlux", ctor.is, 2)
            e2 == specEnd("MeshFlux", ctor.is, specEnd("MeshFlux", ctor.is, 2) + 1)
        IN  /\ scheme.Co1_ = is[1].v
            /\ scheme.tScheme1_ = specTree("MeshFlux", ctor.faceFlux, is, 2)
            /\ scheme.Co2_ = is[e1].v
            /\ scheme.tScheme2_ = specTree("MeshFlux", ctor.faceFlux, is, e1 + 1)
            /\ ctor.pos = e2
            /\ \A j \in 1..Len(is) : j >= ctor.pos => is[j] = Word("phi0")
            /\ scheme.faceFlux_ = ctor.faceFlux
            /\ fluxesOf(scheme) = {ctor.faceFlux}
            /\ lookupFlux(scheme.faceFlux_) = lookupFlux(ctor.faceFlux)

\* C19 happens: the explicit-flux constructor was passed "phi" and a stream
\* that ends in the name of another field: the name was left unread, and
\* scheme2 (LUST) is bound to "phi" as well
ExplicitFluxWithTokenLeft ==
    /\ ctor.form = "MeshFlux" /\ ctor.st = "ok"
    /\ ctor.faceFlux = "phi"
    /\ ctor.pos = Len(ctor.is)
    /\ ctor.is[Len(ctor.is)] = Word("phi0")
    /\ scheme.tScheme2_.type = "LUST"
    /\ scheme.tScheme2_.faceFlux_ = "phi"

\* the coefficients of the outermost scheme are out of range: not
\* 0 <= Co1 < Co2
CoeffsOutOfRange(form, is) ==
    LET Co1 == is[1].v
        Co2 == is[specEnd(form, is, 2)].v
    IN  ~(LessEq(Zero, Co1) /\ Less(Co1, Co2))

\* C21: in both constructors the range check of Co1 and Co2 comes last:
\* with coefficients out of range, an unknown type name in scheme1 or in
\* scheme2 ends construction in the unknown-scheme error (in the
\* name-lookup form with the flux name still unread), and an unregistered
\* flux name in the name-lookup form ends it in the lookup error; the
\* coefficients error is reported only when both sub-schemes are resolved
\* and the flux field is found, with every parameter read.
RangeCheckComesLast ==
    (ctor.form # "none" /\ CoeffsOutOfRange(ctor.form, ctor.is)) =>
        LET is == ctor.is
            form == ctor.form
            e1 == specEnd(ctor.form, ctor.is, 2)
            schemesResolvable ==
                /\ resolvableSpec(ctor.form, ctor.is, 2)
                /\ resolvableSpec(ctor.form, ctor.is, specEnd(ctor.form, ctor.is, 2) + 1)
            fluxRegistered ==
                ctor.form = "Mesh" => ctor.is[posFluxName(ctor.is)].w \in RegisteredFlux
        IN  /\ scheme = NoScheme
            /\ ~schemesResolvable =>
                    /\ ctor.st = "unknownScheme"
                    /\ form = "Mesh" => ctor.pos < endOfParameters(form, is)
            /\ (schemesResolvable /\ ~fluxRegistered) => ctor.st = "lookup"
            /\ (schemesResolvable /\ fluxRegistered) => ctor.st = "coeffs"
            /\ ctor.st = "coeffs" =>
                    /\ schemesResolvable /\ fluxRegistered
                    /\ ctor.pos = endOfParameters(form, is)

\* C21 happens: with Co1 > Co2 and a resolvable scheme1, the name-lookup
\* constructor ended in the lookup error of the flux name
LookupErrorDespiteBadCoeffs ==
    /\ ctor.form = "Mesh"
    /\ CoeffsOutOfRange("Mesh", ctor.is)
    /\ Less(ctor.is[posCo2(ctor.is)].v, ctor.is[1].v)
    /\ ctor.is[2].w = "linearUpwind"
    /\ ctor.st = "lookup"

====
